---- MODULE Spec2Model ----
(***************************************************************************)
(* A model of src/factoratio.py: the Item, RecipeLine, Recipe and Factory  *)
(* classes of the Factorio ratio calculator.                               *)
(*                                                                         *)
(* The state is the Python process: the two class-level id registries,     *)
(* the Recipe objects constructed so far, the Factory object the caller    *)
(* holds, and the outcome of the last call.  Every call either returns or  *)
(* raises; an outcome is recorded with the place that raised it.           *)
(*                                                                         *)
(* Item objects carry an id and a display name.  The name is read by no    *)
(* statement other than its getter, so an Item object is represented by    *)
(* its id; Item.__init__ refuses an id that is already registered, so no   *)
(* two Item objects share an id.  An object made inside a call that then   *)
(* raises is lost to the caller, while its id stays registered.            *)
(***************************************************************************)
EXTENDS Integers, Sequences, FiniteSets, TLC

VARIABLES
  used_item_ids,    \* Item._used_item_ids   (class attribute, line 95)
  used_recipe_ids,  \* Recipe._used_recipe_ids (class attribute, line 140)
  item_objs,        \* the Item objects the caller holds (by id)
  recipe_objs,      \* the Recipe objects the caller holds: recipe id -> object
  factory,          \* the Factory object the caller holds, or NoFactory
  result            \* the outcome of the last call

vars == <<used_item_ids, used_recipe_ids, item_objs, recipe_objs, factory, result>>

(***************************************************************************)
(* Bounds of the model.                                                    *)
(***************************************************************************)
\* largest quantity tried in the one-input recipes for C (RecipeDicts)
MaxQty == 1

ItemIds == {"A", "B", "C", "D"}

(***************************************************************************)
(* Outcomes of a call.                                                     *)
(***************************************************************************)
Returned(v) == [kind |-> "return", err |-> "none", val |-> v]
Raised(e) == [kind |-> "raise", err |-> e, val |-> {}]

\* The raise sites of the source (and the built-in errors Python raises).
ErrItemIdTaken == "Exception: item id already created"   \* line 106
ErrRecipeIdTaken == "Exception: recipe id already created"   \* line 153
ErrDuplicateLine == "Exception: two lines for one item"   \* line 268
ErrNoRecipe == "Exception: no recipe with output"   \* line 87
ErrValue == "ValueError: float"   \* line 285, float() of text that is no number
ErrStrHasNoItemId == "AttributeError: str.get_item_id"   \* line 266, get_item() gave a str
ErrStrHasNoIsOutput == "AttributeError: str.is_output"   \* line 82, the lambda applied to a dict key
ErrNoIsRecipeWithOutput == "AttributeError: Factory._is_recipe_with_output"   \* line 62, Factory has no such attribute
ErrRecipeLineNoArgs == "TypeError: RecipeLine()"   \* line 64, RecipeLine() without item and quantity
ErrFilterNotIterable == "TypeError: function is not iterable"   \* line 82, filter(iterable, function)
ErrKey == "KeyError"   \* line 52, items[final_product_id]
ErrSetHasNoOutputQuantity == "AttributeError: set.get_output_quantity"   \* line 72, the lookup returns a set

(***************************************************************************)
(* Values a caller passes.                                                 *)
(*   A quantity is a number, or text that is not a number.                 *)
(*   The "item" of a line is an Item object, or (as json.load gives it)    *)
(*   the plain string of the id.                                           *)
(***************************************************************************)
Num(n) == [num |-> TRUE, v |-> n]
NotANumber == [num |-> FALSE, v |-> 0]
ItemObj(id) == [obj |-> TRUE, id |-> id]
ItemStr(id) == [obj |-> FALSE, id |-> id]
LineDict(item, q) == [item |-> item, quantity |-> q]

(***************************************************************************)
(* class Item                                                              *)
(***************************************************************************)
\* Item.__init__ without line 111: the id is never registered.
Item_init_unregistered(item_id, used) ==
  IF item_id \in used
    THEN [out |-> Raised(ErrItemIdTaken), used |-> used]
    ELSE [out |-> Returned({item_id}), used |-> used]

\* Item.__init__: refuses an id in the class-wide registry, else registers it.
Item_init(item_id, used) ==
  IF item_id \in used
    THEN [out |-> Raised(ErrItemIdTaken), used |-> used]
    ELSE [out |-> Returned({item_id}), used |-> used \cup {item_id}]

\* Item.from_dict: Item(item_dict["item_id"], item_dict["item_name"]).
Item_from_dict(item_dict, used) == Item_init(item_dict.item_id, used)

(***************************************************************************)
(* class RecipeLine                                                        *)
(***************************************************************************)
\* float(quantity): the number itself for a number, ValueError for other text.
float(q) == IF q.num THEN Returned(q.v) ELSE Raised(ErrValue)

\* RecipeLine.__init__: stores the item and float(quantity); checks nothing else.
RecipeLine_init(item, quantity) ==
  LET f == float(quantity) IN
  IF f.kind = "raise" THEN f
  ELSE Returned([item |-> item, quantity |-> f.val])

\* RecipeLine.from_dict: RecipeLine(line_dict["item"], line_dict["quantity"]).
RecipeLine_from_dict(line_dict) == RecipeLine_init(line_dict.item, line_dict.quantity)

(***************************************************************************)
(* class Recipe                                                            *)
(***************************************************************************)
\* Recipe._build_dict, from line i on: item id -> quantity of its line.
\* line.get_item().get_item_id() needs an Item object; a second line for an
\* item already in the dictionary raises.
RECURSIVE build_dict_from(_, _, _)
build_dict_from(lines, i, line_dict) ==
  IF i > Len(lines) THEN Returned(line_dict)
  ELSE LET line == lines[i] IN
       IF ~line.item.obj THEN Raised(ErrStrHasNoItemId)
       ELSE IF line.item.id \in DOMAIN line_dict THEN Raised(ErrDuplicateLine)
       ELSE build_dict_from(lines, i + 1,
                            line_dict @@ (line.item.id :> line.quantity))

\* _build_dict without lines 267-268: a later line for an item replaces the
\* earlier one.
RECURSIVE build_dict_overwriting_from(_, _, _)
build_dict_overwriting_from(lines, i, line_dict) ==
  IF i > Len(lines) THEN Returned(line_dict)
  ELSE LET line == lines[i] IN
       IF ~line.item.obj THEN Raised(ErrStrHasNoItemId)
       ELSE build_dict_overwriting_from(lines, i + 1,
              (line.item.id :> line.quantity) @@ line_dict)

_build_dict_overwriting(lines) == build_dict_overwriting_from(lines, 1, <<>>)

_build_dict(lines) == build_dict_from(lines, 1, <<>>)

\* Recipe.__init__: id check first, then both dictionaries, then registration.
Recipe_init(recipe_id, inputs, outputs, used) ==
  IF recipe_id \in used
    THEN [out |-> Raised(ErrRecipeIdTaken), used |-> used]
  ELSE LET ins == _build_dict(inputs) IN
       IF ins.kind = "raise" THEN [out |-> ins, used |-> used]
       ELSE LET outs == _build_dict(outputs) IN
            IF outs.kind = "raise" THEN [out |-> outs, used |-> used]
            ELSE [out |-> Returned([recipe_id |-> recipe_id,
                                    inputs |-> ins.val,
                                    outputs |-> outs.val]),
                  used |-> used \cup {recipe_id}]

\* The RecipeLine objects Recipe.from_dict makes of a list of line dicts, in
\* list order; the first quantity float() refuses ends the call.
RECURSIVE lines_from_dicts(_, _, _)
lines_from_dicts(line_dicts, i, lines) ==
  IF i > Len(line_dicts) THEN Returned(lines)
  ELSE LET line == RecipeLine_from_dict(line_dicts[i]) IN
       IF line.kind = "raise" THEN line
       ELSE lines_from_dicts(line_dicts, i + 1, Append(lines, line.val))

\* The orders in which a Python set of n distinct objects may be iterated.
Orders(n) == {p \in [1..n -> 1..n] : \A i, j \in 1..n : p[i] = p[j] => i = j}
Iterate(lines, p) == [i \in 1..Len(lines) |-> lines[p[i]]]

\* Recipe.from_dict: the lines are collected in two sets (RecipeLine defines no
\* __eq__, so two lines for one item are two members) and handed to Recipe();
\* in_order and out_order are the orders in which _build_dict iterates them.
Recipe_from_dict(recipe_dict, in_order, out_order, used) ==
  LET ins == lines_from_dicts(recipe_dict.inputs, 1, <<>>) IN
  IF ins.kind = "raise" THEN [out |-> ins, used |-> used]
  ELSE LET outs == lines_from_dicts(recipe_dict.outputs, 1, <<>>) IN
       IF outs.kind = "raise" THEN [out |-> outs, used |-> used]
       ELSE Recipe_init(recipe_dict.recipe_id,
                        Iterate(ins.val, in_order),
                        Iterate(outs.val, out_order), used)

\* Recipe.is_output / Recipe.is_input
is_output(recipe, item_id) == item_id \in DOMAIN recipe.outputs
is_input(recipe, item_id) == item_id \in DOMAIN recipe.inputs

\* Recipe.get_output_quantity / Recipe.get_input_quantity
get_output_quantity(recipe, item_id) ==
  IF is_output(recipe, item_id) THEN recipe.outputs[item_id] ELSE 0
get_input_quantity(recipe, item_id) ==
  IF is_input(recipe, item_id) THEN recipe.inputs[item_id] ELSE 0

(***************************************************************************)
(* class Factory                                                           *)
(***************************************************************************)
NoFactory == [built |-> FALSE]

\* Factory.__init__: stores its three arguments and checks nothing.  keyed tells
\* whether items and recipes are dicts keyed by id (as from_json_file passes
\* them) or sets of objects; iterating a dict yields its keys.
Factory_init(final_products, items, recipes, keyed) ==
  Returned([built |-> TRUE, final_products |-> final_products,
            items |-> items, recipes |-> recipes, keyed |-> keyed])

\* from_json_file, first loop: an Item per item dict, kept in a dict by id.
RECURSIVE load_items(_, _, _, _)
load_items(item_dicts, i, items, used) ==
  IF i > Len(item_dicts) THEN [out |-> Returned(items), used |-> used]
  ELSE LET item == Item_from_dict(item_dicts[i], used) IN
       IF item.out.kind = "raise" THEN item
       ELSE load_items(item_dicts, i + 1,
                       items \cup {item_dicts[i].item_id}, item.used)

\* The order of a list.  json.load gives every "item" of a line as a string, so
\* _build_dict raises at whichever line it iterates first: the outcome of
\* Recipe.from_dict on a parsed document does not depend on the order.
ListOrder(n) == [i \in 1..n |-> i]

\* from_json_file, second loop: a Recipe per recipe dict, kept in a dict by id.
RECURSIVE load_recipes(_, _, _, _)
load_recipes(recipe_dicts, i, recipes, used) ==
  IF i > Len(recipe_dicts) THEN [out |-> Returned(recipes), used |-> used]
  ELSE LET d == recipe_dicts[i]
           recipe == Recipe_from_dict(d, ListOrder(Len(d.inputs)),
                                      ListOrder(Len(d.outputs)), used) IN
       IF recipe.out.kind = "raise" THEN recipe
       ELSE load_recipes(recipe_dicts, i + 1,
                         recipes @@ (d.recipe_id :> recipe.out.val), recipe.used)

Range(seq) == {seq[i] : i \in 1..Len(seq)}

\* Factory.from_json_file on a parsed document.  The registries keep whatever
\* the loops registered before a raise.
Factory_from_json_file(json_dict, used_items, used_recipes) ==
  LET items == load_items(json_dict.items, 1, {}, used_items) IN
  IF items.out.kind = "raise"
    THEN [out |-> items.out, used_items |-> items.used,
          used_recipes |-> used_recipes, recipes |-> <<>>]
  ELSE LET recipes == load_recipes(json_dict.recipes, 1, <<>>, used_recipes) IN
       IF recipes.out.kind = "raise"
         THEN [out |-> recipes.out, used_items |-> items.used,
               used_recipes |-> recipes.used, recipes |-> <<>>]
       ELSE IF \E id \in Range(json_dict.final_products) : id \notin items.out.val
         THEN [out |-> Raised(ErrKey), used_items |-> items.used,
               used_recipes |-> recipes.used, recipes |-> <<>>]
       ELSE [out |-> Factory_init(Range(json_dict.final_products), items.out.val,
                                  DOMAIN recipes.out.val, TRUE),
             used_items |-> items.used, used_recipes |-> recipes.used,
             recipes |-> recipes.out.val]

\* self._is_recipe_with_output(item_id), line 62: class Factory defines no
\* attribute of that name, so the lookup raises before anything is called.
_is_recipe_with_output(self, item_id) == Raised(ErrNoIsRecipeWithOutput)

\* filter(self._recipes, lambda r: r.is_output(item_id)), line 82: filter takes
\* (function, iterable), so the lambda is the iterable here, and iter() of a
\* function raises.
filter_recipes(self, objs, item_id) == Raised(ErrFilterNotIterable)

\* filter with its arguments in order: the recipes of self that output item_id.
\* Iterating a dict gives its keys, strings, which have no is_output.
filter_in_order(self, objs, item_id) ==
  IF self.keyed
    THEN IF self.recipes = {} THEN Returned({}) ELSE Raised(ErrStrHasNoIsOutput)
    ELSE Returned({r \in self.recipes : is_output(objs[r], item_id)})

\* The lookup with filter's arguments in order and "len(...) >= 1": with
\* several recipes for the item it returns one of them.
_get_recipe_with_output_first(self, objs, item_id) ==
  LET recipes_with_output == filter_in_order(self, objs, item_id) IN
  IF recipes_with_output.kind = "raise"
    THEN [out |-> recipes_with_output, self |-> self]
  ELSE IF Cardinality(recipes_with_output.val) >= 1
    THEN [out |-> Returned({CHOOSE r \in recipes_with_output.val : TRUE}),
          self |-> self]
  ELSE [out |-> Raised(ErrNoRecipe), self |-> self]

\* The lookup with filter's arguments in order and no set(...) copy: the pop
\* removes the recipe from self._recipes.
_get_recipe_with_output_popping_self(self, objs, item_id) ==
  LET recipes_with_output == filter_in_order(self, objs, item_id) IN
  IF recipes_with_output.kind = "raise"
    THEN [out |-> recipes_with_output, self |-> self]
  ELSE IF Cardinality(recipes_with_output.val) = 1
    THEN [out |-> Returned(recipes_with_output.val),
          self |-> [self EXCEPT !.recipes = @ \ recipes_with_output.val]]
  ELSE [out |-> Raised(ErrNoRecipe), self |-> self]

\* Factory._get_recipe_with_output.  The set that is popped is a new set made
\* by set(...), never self._recipes; what is returned is that set after the
\* pop.  Gives the outcome and the Factory as the call leaves it.
_get_recipe_with_output(self, objs, item_id) ==
  LET recipes_with_output == filter_recipes(self, objs, item_id) IN
  IF recipes_with_output.kind = "raise"
    THEN [out |-> recipes_with_output, self |-> self]
  ELSE IF Cardinality(recipes_with_output.val) = 1
    THEN LET recipe_with_output == CHOOSE r \in recipes_with_output.val : TRUE IN
         [out |-> Returned(recipes_with_output.val \ {recipe_with_output}),
          self |-> self]
  ELSE [out |-> Raised(ErrNoRecipe), self |-> self]

\* Factory.get_raw_cost, lines 56-72.  The text of the method ends inside line
\* 73; every path raises before that line: line 62 at the attribute lookup,
\* line 64 at RecipeLine() without arguments, line 70 inside the recipe
\* lookup, line 72 at the set the lookup returns.
get_raw_cost(self, objs, item_id) ==
  LET has_recipe == _is_recipe_with_output(self, item_id) IN
  IF has_recipe.kind = "raise" THEN [out |-> has_recipe, self |-> self]
  ELSE IF ~has_recipe.val
    THEN [out |-> Raised(ErrRecipeLineNoArgs), self |-> self]
  ELSE LET recipe == _get_recipe_with_output(self, objs, item_id) IN
       IF recipe.out.kind = "raise" THEN recipe
       ELSE [out |-> Raised(ErrSetHasNoOutputQuantity), self |-> recipe.self]

(***************************************************************************)
(* What the caller supplies.                                               *)
(***************************************************************************)
Quantities == (0 - 1)..MaxQty
Line(id, q) == LineDict(ItemObj(id), Num(q))
StrLine(id, q) == LineDict(ItemStr(id), Num(q))
RecipeDict(id, ins, outs) == [recipe_id |-> id, inputs |-> ins, outputs |-> outs]

\* Recipe dicts whose lines hold Item objects.
RecipeDicts ==
  { RecipeDict("RA", <<Line("B", 1), Line("C", 2)>>, <<Line("A", 1)>>),
    RecipeDict("RA", <<Line("B", 1)>>, <<Line("A", 1)>>),
    RecipeDict("RB", <<Line("D", 1)>>, <<Line("B", 1)>>),
    RecipeDict("RB", <<Line("A", 1)>>, <<Line("B", 1)>>),
    RecipeDict("RC", <<Line("D", 1)>>, <<Line("B", 1)>>),
    RecipeDict("RC", <<Line("D", 1), Line("D", 2)>>, <<Line("C", 1)>>),
    RecipeDict("RC", <<Line("D", 1)>>, <<Line("C", 1), Line("C", 2)>>),
    RecipeDict("RC", <<LineDict(ItemObj("D"), NotANumber)>>, <<Line("C", 1)>>) }
  \cup { RecipeDict("RC", <<Line("D", q)>>, <<Line("C", 1)>>) : q \in Quantities }

ItemDict(id) == [item_id |-> id]
JsonDict(its, rcs, fps) == [items |-> its, recipes |-> rcs, final_products |-> fps]

\* Parsed documents handed to from_json_file.
JsonDicts ==
  { JsonDict(<<ItemDict("A"), ItemDict("B")>>,
             <<RecipeDict("RA", <<>>, <<>>)>>, <<"A">>),
    JsonDict(<<ItemDict("A"), ItemDict("A")>>, <<>>, <<>>),
    JsonDict(<<ItemDict("A"), ItemDict("B")>>,
             <<RecipeDict("RB", <<StrLine("A", 1)>>, <<StrLine("B", 1)>>)>>, <<"B">>),
    JsonDict(<<ItemDict("A"), ItemDict("B")>>, <<>>, <<"C">>) }

LineItems(line_dicts) == {line_dicts[i].item : i \in 1..Len(line_dicts)}

(***************************************************************************)
(* The calls.                                                              *)
(***************************************************************************)
Outcome(op, arg, out) ==
  [op |-> op, arg |-> arg, kind |-> out.kind, err |-> out.err, val |-> out.val]

Init ==
  /\ used_item_ids = {}
  /\ used_recipe_ids = {}
  /\ item_objs = {}
  /\ recipe_objs = <<>>
  /\ factory = NoFactory
  /\ result = Outcome("start", "", Returned({}))

\* Item(item_id, item_name)
NewItem(item_id) ==
  LET r == Item_init(item_id, used_item_ids) IN
  /\ used_item_ids' = r.used
  /\ item_objs' = IF r.out.kind = "return" THEN item_objs \cup {item_id} ELSE item_objs
  /\ result' = Outcome("Item", item_id, [r.out EXCEPT !.val = {}])
  /\ UNCHANGED <<used_recipe_ids, recipe_objs, factory>>

\* Recipe.from_dict(recipe_dict), the lines holding Item objects the caller has
NewRecipe(recipe_dict) ==
  /\ \A item \in LineItems(recipe_dict.inputs) \cup LineItems(recipe_dict.outputs) :
        item.obj => item.id \in item_objs
  /\ \E in_order \in Orders(Len(recipe_dict.inputs)),
        out_order \in Orders(Len(recipe_dict.outputs)) :
       LET r == Recipe_from_dict(recipe_dict, in_order, out_order, used_recipe_ids) IN
       /\ used_recipe_ids' = r.used
       /\ recipe_objs' = IF r.out.kind = "return"
                           THEN recipe_objs @@ (recipe_dict.recipe_id :> r.out.val)
                           ELSE recipe_objs
       /\ result' = Outcome("Recipe", recipe_dict, [r.out EXCEPT !.val = {}])
  /\ UNCHANGED <<used_item_ids, item_objs, factory>>

\* Factory(final_products, items, recipes) on sets of objects the caller has
\* (Next passes every Item and Recipe object it holds)
NewFactory(final_products, items, recipes) ==
  LET r == Factory_init(final_products, items, recipes, FALSE) IN
  /\ factory' = r.val
  /\ result' = Outcome("Factory", r.val, [r EXCEPT !.val = {}])
  /\ UNCHANGED <<used_item_ids, used_recipe_ids, item_objs, recipe_objs>>

\* Factory.from_json_file(json_file)
LoadFactory(json_dict) ==
  LET r == Factory_from_json_file(json_dict, used_item_ids, used_recipe_ids) IN
  /\ used_item_ids' = r.used_items
  /\ used_recipe_ids' = r.used_recipes
  /\ IF r.out.kind = "return"
       THEN /\ factory' = r.out.val
            /\ item_objs' = item_objs \cup r.out.val.items
            /\ recipe_objs' = recipe_objs @@ r.recipes
       ELSE UNCHANGED <<factory, item_objs, recipe_objs>>
  /\ result' = Outcome("from_json_file", json_dict, [r.out EXCEPT !.val = {}])

\* factory.get_raw_cost(item_id)
RawCost(item_id) ==
  /\ factory.built
  /\ LET r == get_raw_cost(factory, recipe_objs, item_id) IN
     /\ factory' = r.self
     /\ result' = Outcome("get_raw_cost", item_id, r.out)
  /\ UNCHANGED <<used_item_ids, used_recipe_ids, item_objs, recipe_objs>>

\* factory._get_recipe_with_output(item_id)
RecipeWithOutput(item_id) ==
  /\ factory.built
  /\ LET r == _get_recipe_with_output(factory, recipe_objs, item_id) IN
     /\ factory' = r.self
     /\ result' = Outcome("_get_recipe_with_output", item_id, r.out)
  /\ UNCHANGED <<used_item_ids, used_recipe_ids, item_objs, recipe_objs>>

Next ==
  \/ \E item_id \in ItemIds : NewItem(item_id)
  \/ \E recipe_dict \in RecipeDicts : NewRecipe(recipe_dict)
  \/ \E final_products \in {{"A"} \cap item_objs} :
       NewFactory(final_products, item_objs, DOMAIN recipe_objs)
  \/ \E json_dict \in JsonDicts : LoadFactory(json_dict)
  \/ \E item_id \in ItemIds : RawCost(item_id)
  \/ \E item_id \in ItemIds : RecipeWithOutput(item_id)

Spec == Init /\ [][Next]_vars

(***************************************************************************)
(* Vocabulary of the properties.                                           *)
(***************************************************************************)
QueryOps == {"get_raw_cost", "_get_recipe_with_output"}

\* The recipes of a Factory that list item_id as an output.
Producers(f, item_id) == {r \in f.recipes : is_output(recipe_objs[r], item_id)}

\* b is an input of the recipe (or a recipe) of f that outputs a.
Needs(f, a, b) ==
  \E r \in f.recipes : is_output(recipe_objs[r], a) /\ is_input(recipe_objs[r], b)

\* The items reached from item_id in at most n steps of Needs, n >= 1.
RECURSIVE NeededWithin(_, _, _)
NeededWithin(f, item_id, n) ==
  LET direct == {b \in ItemIds : Needs(f, item_id, b)} IN
  IF n <= 1 THEN direct
  ELSE direct \cup UNION {NeededWithin(f, b, n - 1) : b \in direct}

Needed(f, item_id) == NeededWithin(f, item_id, Cardinality(ItemIds))

\* A cycle of the recipe graph can be reached from item_id.
ReachesCycle(f, item_id) ==
  \E x \in {item_id} \cup Needed(f, item_id) : x \in Needed(f, x)

\* Two of the line dicts name the same item.
HasTwoLinesForAnItem(line_dicts) ==
  \E i, j \in 1..Len(line_dicts) :
     i < j /\ line_dicts[i].item.id = line_dicts[j].item.id

LineIds(line_dicts) == {line_dicts[i].item.id : i \in 1..Len(line_dicts)}

\* The ids a parsed document supplies are pairwise distinct.
IdsPairwiseDistinct(json_dict) ==
  /\ \A i, j \in 1..Len(json_dict.items) :
        json_dict.items[i].item_id = json_dict.items[j].item_id => i = j
  /\ \A i, j \in 1..Len(json_dict.recipes) :
        json_dict.recipes[i].recipe_id = json_dict.recipes[j].recipe_id => i = j

\* An item id of the document is registered already, or repeated in it.
ItemIdIsTaken(json_dict, used) ==
  \E i \in 1..Len(json_dict.items) :
     \/ json_dict.items[i].item_id \in used
     \/ \E j \in 1..(i - 1) : json_dict.items[j].item_id = json_dict.items[i].item_id

\* The catalog of the diamond example: RB: 1 D -> 1 B, RC: 1 D -> 1 C,
\* RA: 1 B + 2 C -> 1 A.
IsDiamond(f) ==
  /\ f.built /\ ~f.keyed
  /\ f.recipes = {"RA", "RB", "RC"}
  /\ recipe_objs["RA"].inputs = ("B" :> 1) @@ ("C" :> 2)
  /\ recipe_objs["RA"].outputs = ("A" :> 1)
  /\ recipe_objs["RB"].inputs = ("D" :> 1)
  /\ recipe_objs["RB"].outputs = ("B" :> 1)
  /\ recipe_objs["RC"].inputs = ("D" :> 1)
  /\ recipe_objs["RC"].outputs = ("C" :> 1)

\* The error kinds of the specification that no raise site of the source names.
CyclicRecipeError == "CyclicRecipeError"

(***************************************************************************)
(* C1                                                                      *)
(***************************************************************************)
\* C1 as stated: a catalog with two recipes for one output is never built, so
\* in every Factory each item is an output of at most one recipe.
C1_BuiltCatalogIsUnambiguous ==
  factory.built =>
    \A item_id \in ItemIds : Cardinality(Producers(factory, item_id)) <= 1

\* C1 as amended: constructing a Factory never raises, also with several
\* recipes for one output; the ambiguity is met at the lookup, where
\* _get_recipe_with_output raises and returns no recipe for such an item.
C1_AmbiguityRaisedAtLookup ==
  /\ result.op = "Factory" => result.kind = "return" /\ factory = result.arg
  /\ (/\ result.op = "_get_recipe_with_output"
      /\ Cardinality(Producers(factory, result.arg)) > 1)
     => result.kind = "raise"

C1_Witness ==
  /\ result.op = "_get_recipe_with_output"
  /\ Cardinality(Producers(factory, result.arg)) > 1
  /\ result.kind = "raise"

(***************************************************************************)
(* C2                                                                      *)
(***************************************************************************)
\* C2 as stated: a raw-cost query whose target reaches a cycle of the recipe
\* graph ends by failing with CyclicRecipeError and returns no mapping.
C2_CycleIsReported ==
  (/\ result.op = "get_raw_cost"
   /\ ReachesCycle(factory, result.arg))
  => result.kind = "raise" /\ result.err = CyclicRecipeError

(***************************************************************************)
(* C3                                                                      *)
(***************************************************************************)
\* C3 as stated: in the diamond catalog the raw cost of A is exactly 3 D, the
\* contributions of both paths to D summed.
C3_DiamondIsSummed ==
  (/\ result.op = "get_raw_cost"
   /\ result.arg = "A"
   /\ IsDiamond(factory))
  => /\ result.kind = "return"
     /\ result.val = {[item |-> "D", quantity |-> 3]}

(***************************************************************************)
(* C4                                                                      *)
(***************************************************************************)
\* C4 as stated: the raw cost of an item that no recipe produces is that item
\* itself, in the quantity asked for (the method takes no quantity: one unit);
\* the query returns and does not raise.
C4_RawMaterialCostsItself ==
  (/\ result.op = "get_raw_cost"
   /\ ~factory.keyed
   /\ result.arg \in factory.items
   /\ Producers(factory, result.arg) = {})
  => /\ result.kind = "return"
     /\ result.val = {[item |-> result.arg, quantity |-> 1]}

(***************************************************************************)
(* C5                                                                      *)
(***************************************************************************)
\* C5 as stated: uniqueness is scoped to one build, so a build whose own ids
\* are pairwise distinct never fails for a duplicate id, whatever was built
\* before it.
C5_UniquenessIsPerCatalog ==
  (/\ result.op = "from_json_file"
   /\ IdsPairwiseDistinct(result.arg))
  => result.err \notin {ErrItemIdTaken, ErrRecipeIdTaken}

\* C5 as amended: uniqueness is scoped to the process.  An Item is refused
\* exactly when its id is in the class-wide registry, which keeps the id of
\* every Item ever constructed, by this build, an earlier build or a build
\* that failed; the registries never lose an id; a Recipe is refused for its id
\* only if the id is in the recipe registry, and always if it is (in
\* Recipe.from_dict, unless float() refused a quantity before Recipe() was
\* called).
C5_UniquenessIsProcessWide ==
  [][/\ used_item_ids \subseteq used_item_ids'
     /\ used_recipe_ids \subseteq used_recipe_ids'
     /\ item_objs' \subseteq used_item_ids'
     /\ DOMAIN recipe_objs' \subseteq used_recipe_ids'
     /\ result'.op = "Item" =>
          /\ result'.err = ErrItemIdTaken <=> result'.arg \in used_item_ids
          /\ result'.arg \in used_item_ids'
     /\ result'.op = "from_json_file" =>
          (result'.err = ErrItemIdTaken
             <=> ItemIdIsTaken(result'.arg, used_item_ids))
     /\ result'.op = "Recipe" =>
          /\ result'.err = ErrRecipeIdTaken
               => result'.arg.recipe_id \in used_recipe_ids
          /\ result'.arg.recipe_id \in used_recipe_ids
               => result'.err \in {ErrRecipeIdTaken, ErrValue}
    ]_vars

\* A build whose own ids are pairwise distinct is refused for an item id.
C5_Witness ==
  /\ result.op = "from_json_file"
  /\ IdsPairwiseDistinct(result.arg)
  /\ result.err = ErrItemIdTaken

(***************************************************************************)
(* C6                                                                      *)
(***************************************************************************)
\* C6 as stated: a recipe line with a quantity <= 0 is rejected, so every line
\* of every recipe that was constructed has a quantity > 0.
C6_QuantitiesArePositive ==
  \A r \in DOMAIN recipe_objs :
     /\ \A item_id \in DOMAIN recipe_objs[r].inputs :
           recipe_objs[r].inputs[item_id] > 0
     /\ \A item_id \in DOMAIN recipe_objs[r].outputs :
           recipe_objs[r].outputs[item_id] > 0

(***************************************************************************)
(* C8                                                                      *)
(***************************************************************************)
\* C8: a recipe given two input lines, or two output lines, for one item is
\* refused and leaves no Recipe object and no registered id behind; a recipe
\* that is constructed has one dictionary entry per line it was given.
C8_OneLinePerItem ==
  result.op = "Recipe" =>
    LET d == result.arg IN
    /\ (HasTwoLinesForAnItem(d.inputs) \/ HasTwoLinesForAnItem(d.outputs))
         => result.kind = "raise"
    /\ result.err = ErrDuplicateLine
         => /\ d.recipe_id \notin DOMAIN recipe_objs
            /\ d.recipe_id \notin used_recipe_ids
    /\ result.kind = "return"
         => /\ DOMAIN recipe_objs[d.recipe_id].inputs = LineIds(d.inputs)
            /\ Cardinality(LineIds(d.inputs)) = Len(d.inputs)
            /\ DOMAIN recipe_objs[d.recipe_id].outputs = LineIds(d.outputs)
            /\ Cardinality(LineIds(d.outputs)) = Len(d.outputs)

C8_Witness ==
  /\ result.op = "Recipe"
  /\ HasTwoLinesForAnItem(result.arg.outputs)
  /\ result.err = ErrDuplicateLine

(***************************************************************************)
(* C9                                                                      *)
(***************************************************************************)
\* C9: a query, failing or not, changes neither the Factory nor the objects
\* and registries behind it, and asking again gives the same outcome.
C9_QueriesChangeNothing ==
  [][result'.op \in QueryOps =>
       /\ factory' = factory
       /\ recipe_objs' = recipe_objs
       /\ item_objs' = item_objs
       /\ used_item_ids' = used_item_ids
       /\ used_recipe_ids' = used_recipe_ids
       /\ LET again ==
                IF result'.op = "get_raw_cost"
                  THEN get_raw_cost(factory', recipe_objs', result'.arg)
                  ELSE _get_recipe_with_output(factory', recipe_objs', result'.arg)
          IN Outcome(result'.op, result'.arg, again.out) = result'
    ]_vars

\* A failed query against a catalog that holds recipes.
C9_Witness ==
  /\ result.op \in QueryOps
  /\ result.kind = "raise"
  /\ factory.built
  /\ factory.recipes # {}

====
